---- MODULE Spec2Model ----
(***************************************************************************)
(* Replication slot names of an ETL pipeline: the codec between a slot     *)
(* identity (EtlReplicationSlot) and the name Postgres stores, the         *)
(* pipeline configuration gate on the slot prefix, and the batched         *)
(* cleanup of a pipeline's inactive slots.                                 *)
(*                                                                         *)
(* A string is a sequence of characters, each character a one-element      *)
(* token ("a", "_", "7"); the token "E9" stands for a character whose      *)
(* UTF-8 encoding takes two bytes.  An unsigned integer of the program is  *)
(* a little-endian sequence of 16-bit limbs (four for u64, two for u32),   *)
(* so that u64::MAX and u32::MAX and the overflow of a parse are exact.    *)
(***************************************************************************)
EXTENDS Integers, Sequences, FiniteSets, TLC

VARIABLES
    input,      \* the value a run of the pure functions starts from
    calls,      \* the calls made so far, oldest first: [fn, arg, ret]
    target,     \* (pipeline_id, table_ids, slot_prefix) of the cleanup caller
    catalog,    \* pg_replication_slots: the rows [slot_name, active]
    inflight,   \* statements sent to the database and not yet executed
    cleanup,    \* the current or last invocation of the cleanup
    lastExec    \* what the last executed statement did to the catalog

vars == <<input, calls, target, catalog, inflight, cleanup, lastExec>>

codecVars == <<input, calls>>
cleanupVars == <<target, catalog, inflight, cleanup, lastExec>>

(***************************************************************************)
(* Bounds of the model.                                                    *)
(***************************************************************************)
\* The longest chain of conversions applied to one input.
MaxCalls == 2
\* The longest table_ids slice handed to the cleanup.
MaxTables == 2

(***************************************************************************)
(* Strings.                                                                *)
(***************************************************************************)
Rep(c, n) == [i \in 1..n |-> c]

\* str::len(): the length in bytes of the UTF-8 encoding.
ByteLen(s) == Len(s) + Cardinality({i \in 1..Len(s) : s[i] = "E9"})

\* str::find(pat): the index (from 0) of the first occurrence, -1 for None.
RECURSIVE FindFrom(_, _, _)
FindFrom(s, pat, i) ==
    IF i + Len(pat) > Len(s) THEN -1
    ELSE IF SubSeq(s, i + 1, i + Len(pat)) = pat THEN i
    ELSE FindFrom(s, pat, i + 1)

Find(s, pat) == FindFrom(s, pat, 0)

Contains(s, pat) == Find(s, pat) >= 0

\* The index (from 1) of the last occurrence of character c, 0 when absent.
RECURSIVE LastIndexOf(_, _, _)
LastIndexOf(s, c, i) ==
    IF i = 0 THEN 0
    ELSE IF s[i] = c THEN i
    ELSE LastIndexOf(s, c, i - 1)

\* str::rsplitn(2, c): the pieces in the order the iterator yields them, the
\* rightmost first; one piece only when c does not occur.
RSplitN2(s, c) ==
    LET k == LastIndexOf(s, c, Len(s)) IN
    IF k = 0 THEN <<s>>
    ELSE <<SubSeq(s, k + 1, Len(s)), SubSeq(s, 1, k - 1)>>

(***************************************************************************)
(* Unsigned integers of a fixed width, as 16-bit limbs.                    *)
(***************************************************************************)
LimbBase == 2 ^ 16

U64Limbs == 64 \div 16
U32Limbs == 32 \div 16

Zero(w) == [i \in 1..w |-> 0]
MaxValue(w) == [i \in 1..w |-> LimbBase - 1]
Small(k, w) == [i \in 1..w |-> IF i = 1 THEN k ELSE 0]

U64(k) == Small(k, U64Limbs)
U32(k) == Small(k, U32Limbs)
U64_MAX == MaxValue(U64Limbs)
U32_MAX == MaxValue(U32Limbs)

Digits == <<"0", "1", "2", "3", "4", "5", "6", "7", "8", "9">>

IsDigit(c) == \E d \in 1..10 : Digits[d] = c

DigitValue(c) == (CHOOSE d \in 1..10 : Digits[d] = c) - 1

\* n divided by ten: [q |-> quotient, r |-> remainder], the long division
\* running from the most significant limb (i) down.
RECURSIVE DivTen(_, _, _, _)
DivTen(n, i, rem, q) ==
    IF i = 0 THEN [q |-> q, r |-> rem]
    ELSE LET cur == rem * LimbBase + n[i] IN
         DivTen(n, i - 1, cur % 10, [q EXCEPT ![i] = cur \div 10])

\* n * 10 + d within the width: [ok |-> FALSE] on overflow, as checked_mul
\* followed by checked_add.
RECURSIVE MulTenAdd(_, _, _, _)
MulTenAdd(n, i, carry, acc) ==
    IF i > Len(n) THEN
        IF carry = 0 THEN [ok |-> TRUE, val |-> acc] ELSE [ok |-> FALSE]
    ELSE LET cur == n[i] * 10 + carry IN
         MulTenAdd(n, i + 1, cur \div LimbBase, [acc EXCEPT ![i] = cur % LimbBase])

\* Display of an unsigned integer: decimal, no sign, no leading zero.
RECURSIVE FormatUnsigned(_)
FormatUnsigned(n) ==
    LET d == DivTen(n, Len(n), 0, n) IN
    IF d.q = Zero(Len(n)) THEN <<Digits[d.r + 1]>>
    ELSE Append(FormatUnsigned(d.q), Digits[d.r + 1])

\* The digit loop of str::parse for an unsigned integer of w limbs.
RECURSIVE ParseDigits(_, _)
ParseDigits(s, acc) ==
    IF s = <<>> THEN [ok |-> TRUE, val |-> acc]
    ELSE IF ~IsDigit(Head(s)) THEN [ok |-> FALSE]
    ELSE LET m == MulTenAdd(acc, 1, DigitValue(Head(s)), acc) IN
         IF m.ok THEN ParseDigits(Tail(s), m.val) ELSE [ok |-> FALSE]

\* str::parse::<uN>(): empty is an error, a lone sign is an error, one
\* leading "+" is accepted, "-" is no digit of an unsigned type.
ParseUnsigned(s, w) ==
    IF s = <<>> THEN [ok |-> FALSE]
    ELSE IF Len(s) = 1 /\ Head(s) \in {"+", "-"} THEN [ok |-> FALSE]
    ELSE IF Head(s) = "+" THEN ParseDigits(Tail(s), Zero(w))
    ELSE ParseDigits(s, Zero(w))

(***************************************************************************)
(* The slot identity codec.                                                *)
(***************************************************************************)
MAX_SLOT_NAME_LENGTH == 63

DEFAULT_SLOT_PREFIX == <<"s", "u", "p", "a", "b", "a", "s", "e", "_", "e", "t", "l">>

APPLY_SUFFIX == <<"a", "p", "p", "l", "y">>

TABLE_SYNC_SUFFIX == <<"t", "a", "b", "l", "e", "_", "s", "y", "n", "c">>

Ok(v) == [ok |-> TRUE, val |-> v]

Err(kind, text) == [ok |-> FALSE, err |-> kind, text |-> text]

for_apply_worker(pipeline_id, prefix) ==
    [variant |-> "Apply", pipeline_id |-> pipeline_id, prefix |-> prefix]

for_table_sync_worker(pipeline_id, table_id, prefix) ==
    [variant |-> "TableSync", pipeline_id |-> pipeline_id,
     table_id |-> table_id, prefix |-> prefix]

\* WorkerType::build_etl_replication_slot
build_etl_replication_slot(worker, pipeline_id, slot_prefix) ==
    IF worker.type = "Apply"
    THEN [variant |-> "Apply", pipeline_id |-> pipeline_id, prefix |-> slot_prefix]
    ELSE [variant |-> "TableSync", pipeline_id |-> pipeline_id,
          table_id |-> worker.table_id, prefix |-> slot_prefix]

\* The length gate of the two prefix helpers.
PrefixTooLong(prefix) == ByteLen(prefix) >= MAX_SLOT_NAME_LENGTH

apply_prefix(pipeline_id, slot_prefix) ==
    LET prefix == slot_prefix \o <<"_">> \o APPLY_SUFFIX \o <<"_">>
                    \o FormatUnsigned(pipeline_id) IN
    IF PrefixTooLong(prefix) THEN Err("InvalidSlotNameLength", prefix)
    ELSE Ok(prefix)

table_sync_prefix(pipeline_id, slot_prefix) ==
    LET prefix == slot_prefix \o <<"_">> \o TABLE_SYNC_SUFFIX \o <<"_">>
                    \o FormatUnsigned(pipeline_id) \o <<"_">> IN
    IF PrefixTooLong(prefix) THEN Err("InvalidSlotNameLength", prefix)
    ELSE Ok(prefix)

\* The pipeline id read as a 32-bit integer.
ParsePipelineId_u32(rest) == ParseUnsigned(rest, U32Limbs)

\* The numeric segment after the apply delimiter.
ParsePipelineId(rest) == ParseUnsigned(rest, U64Limbs)

\* The table segment of a table sync name.
ParseTableOid(table_id_str) == ParseUnsigned(table_id_str, U32Limbs)

\* impl TryFrom<&str> for EtlReplicationSlot
EtlReplicationSlot_try_from(slot_name) ==
    LET apply_pattern == <<"_">> \o APPLY_SUFFIX \o <<"_">>
        table_sync_pattern == <<"_">> \o TABLE_SYNC_SUFFIX \o <<"_">>
        apply_pos == Find(slot_name, apply_pattern)
        sync_pos == Find(slot_name, table_sync_pattern)
        invalid == Err("InvalidSlotName", slot_name)
    IN
    IF apply_pos >= 0 THEN
        LET prefix == SubSeq(slot_name, 1, apply_pos)
            rest == SubSeq(slot_name, apply_pos + Len(apply_pattern) + 1,
                           Len(slot_name))
            pipeline_id == ParsePipelineId(rest)
        IN IF pipeline_id.ok
           THEN Ok(for_apply_worker(pipeline_id.val, prefix))
           ELSE invalid
    ELSE IF sync_pos >= 0 THEN
        LET prefix == SubSeq(slot_name, 1, sync_pos)
            rest == SubSeq(slot_name, sync_pos + Len(table_sync_pattern) + 1,
                           Len(slot_name))
            parts == RSplitN2(rest, "_")
        IN IF Len(parts) < 2 THEN invalid
           ELSE LET pipeline_id == ParsePipelineId(parts[2])
                    table_oid == ParseTableOid(parts[1])
                IN IF ~pipeline_id.ok THEN invalid
                   ELSE IF ~table_oid.ok THEN invalid
                   ELSE Ok(for_table_sync_worker(pipeline_id.val,
                                                 table_oid.val, prefix))
    ELSE invalid

\* The format! of the name of a slot.
FormatSlotName(slot) ==
    IF slot.variant = "Apply"
    THEN slot.prefix \o <<"_">> \o APPLY_SUFFIX \o <<"_">>
           \o FormatUnsigned(slot.pipeline_id)
    ELSE slot.prefix \o <<"_">> \o TABLE_SYNC_SUFFIX \o <<"_">>
           \o FormatUnsigned(slot.pipeline_id) \o <<"_">>
           \o FormatUnsigned(slot.table_id)

\* The gate of the prefix helpers applied to a full name.
NameTooLong_Inclusive(slot_name) == ByteLen(slot_name) >= MAX_SLOT_NAME_LENGTH

\* The length gate of the encoding.
NameTooLong(slot_name) == ByteLen(slot_name) > MAX_SLOT_NAME_LENGTH

\* impl TryFrom<EtlReplicationSlot> for String
String_try_from(slot) ==
    LET slot_name == FormatSlotName(slot) IN
    IF NameTooLong(slot_name) THEN Err("InvalidSlotNameLength", slot_name)
    ELSE Ok(slot_name)

(***************************************************************************)
(* The pipeline configuration gate.                                        *)
(***************************************************************************)
\* A prefix limit one byte too generous.
MAX_SLOT_PREFIX_LENGTH_OneMore == 20 + 1

MAX_SLOT_PREFIX_LENGTH == 20

ValidationError(kind) == [ok |-> FALSE, err |-> kind]

SlotPrefixTooLong(max_length, actual_length) ==
    [ok |-> FALSE, err |-> "SlotPrefixTooLong",
     max_length |-> max_length, actual_length |-> actual_length]

\* The TLS settings' own validation: its error, if any, is handed on as is.
TlsConfig_validate(tls) ==
    IF tls.acceptable THEN Ok("()") ELSE ValidationError("InvalidTlsConfig")

\* str::len() of the configured slot prefix.
SlotPrefixLen(slot_prefix) == ByteLen(slot_prefix)

\* The gate with the retry check ahead of the worker check.
validate_RetryFirst(config) ==
    LET tls == TlsConfig_validate(config.tls) IN
    IF ~tls.ok THEN tls
    ELSE IF config.table_error_retry_max_attempts = 0
        THEN ValidationError("TableErrorRetryMaxAttemptsZero")
    ELSE IF config.max_table_sync_workers = 0
        THEN ValidationError("MaxTableSyncWorkersZero")
    ELSE IF config.slot_prefix = <<>>
        THEN ValidationError("SlotPrefixEmpty")
    ELSE IF ByteLen(config.slot_prefix) > 20
        THEN SlotPrefixTooLong(20, ByteLen(config.slot_prefix))
    ELSE Ok("()")

\* PipelineConfig::validate
validate(config) ==
    LET tls == TlsConfig_validate(config.tls) IN
    IF ~tls.ok THEN tls
    ELSE IF config.max_table_sync_workers = 0
        THEN ValidationError("MaxTableSyncWorkersZero")
    ELSE IF config.table_error_retry_max_attempts = 0
        THEN ValidationError("TableErrorRetryMaxAttemptsZero")
    ELSE IF config.slot_prefix = <<>>
        THEN ValidationError("SlotPrefixEmpty")
    ELSE IF SlotPrefixLen(config.slot_prefix) > MAX_SLOT_PREFIX_LENGTH
        THEN SlotPrefixTooLong(MAX_SLOT_PREFIX_LENGTH,
                               SlotPrefixLen(config.slot_prefix))
    ELSE Ok("()")

(***************************************************************************)
(* The inputs of the pure functions.                                       *)
(***************************************************************************)
ApplyPattern == <<"_", "a", "p", "p", "l", "y", "_">>

TableSyncPattern == <<"_", "t", "a", "b", "l", "e", "_", "s", "y", "n", "c", "_">>

\* Prefixes of every length at which some name or helper reaches 63 or 64
\* bytes, a prefix with a two-byte character, and prefixes that hold or end
\* with a delimiter of the codec.
Prefixes ==
    {Rep("a", n) : n \in {0, 1, 20, 21, 36, 37, 48, 49, 55, 56}}
    \cup {DEFAULT_SLOT_PREFIX,
          Rep("a", 19) \o <<"E9">>,
          <<"x", "_", "a", "p", "p", "l", "y">>,
          <<"a">> \o ApplyPattern \o <<"b">>,
          <<"x", "_", "t", "a", "b", "l", "e", "_", "s", "y", "n", "c">>,
          <<"a">> \o TableSyncPattern \o <<"b">>}

PipelineIds == {U64(0), U64(42), U64_MAX}

TableIds == {U32(0), U32(123), U32_MAX}

WorkerTypes ==
    {[type |-> "Apply"]} \cup {[type |-> "TableSync", table_id |-> t] : t \in TableIds}

PipelineConfigs ==
    [id : PipelineIds,
     slot_prefix : Prefixes,
     max_table_sync_workers : {0, 4},
     table_error_retry_max_attempts : {0, 5},
     tls : {[acceptable |-> TRUE], [acceptable |-> FALSE]}]

U64MaxNumeral ==
    <<"1", "8", "4", "4", "6", "7", "4", "4", "0", "7",
      "3", "7", "0", "9", "5", "5", "1", "6", "1", "5">>

U32MaxNumeral == <<"4", "2", "9", "4", "9", "6", "7", "2", "9", "5">>

\* Strings a catalog or a caller may hand to the decoder: the names of the
\* repository's tests, and names at the edges of the two grammars.
SlotNames ==
    LET x == <<"x">>
        myprefix == <<"m", "y", "p", "r", "e", "f", "i", "x">>
        custom == <<"c", "u", "s", "t", "o", "m">>
    IN
    {<<"u", "n", "k", "n", "o", "w", "n", "_", "s", "l", "o", "t">>,
     DEFAULT_SLOT_PREFIX \o ApplyPattern,
     DEFAULT_SLOT_PREFIX \o TableSyncPattern \o <<"a", "b", "c">>,
     DEFAULT_SLOT_PREFIX \o ApplyPattern \o <<"1", "3">>,
     DEFAULT_SLOT_PREFIX \o TableSyncPattern \o <<"7", "_", "1", "2", "3", "4", "5">>,
     custom \o TableSyncPattern \o <<"7", "_", "1", "2", "3", "4", "5">>,
     myprefix \o ApplyPattern \o <<"1", "2", "3">>,
     myprefix \o TableSyncPattern \o <<"4", "5", "6", "_", "7", "8", "9">>,
     <<>>,
     ApplyPattern \o <<"5">>,
     TableSyncPattern \o <<"5", "_", "6">>,
     x \o ApplyPattern \o <<"+", "5">>,
     x \o ApplyPattern \o <<"-", "5">>,
     x \o ApplyPattern \o <<"+">>,
     x \o ApplyPattern \o <<"0", "0", "7">>,
     x \o ApplyPattern \o <<"5", "x">>,
     x \o ApplyPattern \o U64MaxNumeral,
     x \o ApplyPattern \o <<"1", "8", "4", "4", "6", "7", "4", "4", "0", "7",
                            "3", "7", "0", "9", "5", "5", "1", "6", "1", "6">>,
     x \o TableSyncPattern \o <<"1", "_">> \o U32MaxNumeral,
     x \o TableSyncPattern \o <<"1", "_", "4", "2", "9", "4", "9", "6", "7", "2", "9", "6">>,
     x \o TableSyncPattern \o <<"5">>,
     x \o TableSyncPattern \o <<"_", "5">>,
     x \o TableSyncPattern \o <<"5", "_">>,
     x \o TableSyncPattern \o <<"1", "_", "2", "_", "3">>,
     x \o TableSyncPattern \o <<"1", "_", "+", "2">>,
     x \o TableSyncPattern \o <<"0", "1", "_", "2">>,
     x \o ApplyPattern \o <<"1">> \o TableSyncPattern \o <<"2", "_", "3">>,
     x \o TableSyncPattern \o <<"1">> \o ApplyPattern \o <<"2">>,
     x \o ApplyPattern \o <<"1">> \o ApplyPattern \o <<"2">>,
     Rep("a", 56) \o ApplyPattern \o <<"1", "2", "3">>,
     Rep("a", 50) \o TableSyncPattern \o <<"1", "_", "2">>}

Inputs ==
    [kind : {"pipeline"}, config : PipelineConfigs, worker : WorkerTypes]
    \cup [kind : {"name"}, slot_name : SlotNames]

(***************************************************************************)
(* The pure functions as a state machine: an input is drawn, and the       *)
(* conversions are applied to it and to each other's results.              *)
(***************************************************************************)
Call(fn, arg, ret) == [fn |-> fn, arg |-> arg, ret |-> ret]

Last(s) == s[Len(s)]

\* The cleanup takes no part in a run of the pure functions.
NoCleanup == [state |-> "none"]

NoExec == [done |-> FALSE]

NoTarget == [pipeline_id |-> U64(0), table_ids |-> <<>>, slot_prefix |-> <<>>]

CleanupIdle ==
    /\ target = NoTarget
    /\ catalog = {}
    /\ inflight = <<>>
    /\ cleanup = NoCleanup
    /\ lastExec = NoExec

Init ==
    /\ input \in Inputs
    /\ calls = <<>>
    /\ CleanupIdle

\* A slot identity is at hand: the one the worker builds from its pipeline's
\* configuration, or the one the last decoding returned.
HasSlot ==
    IF calls = <<>> THEN input.kind = "pipeline"
    ELSE Last(calls).fn = "decode" /\ Last(calls).ret.ok

CurrentSlot ==
    IF calls = <<>>
    THEN build_etl_replication_slot(input.worker, input.config.id,
                                    input.config.slot_prefix)
    ELSE Last(calls).ret.val

\* A name is at hand: the input, or the one the last encoding returned.
HasName ==
    IF calls = <<>> THEN input.kind = "name"
    ELSE Last(calls).fn = "encode" /\ Last(calls).ret.ok

CurrentName == IF calls = <<>> THEN input.slot_name ELSE Last(calls).ret.val

Encode ==
    /\ Len(calls) < MaxCalls
    /\ HasSlot
    /\ calls' = Append(calls, Call("encode", CurrentSlot, String_try_from(CurrentSlot)))
    /\ UNCHANGED <<input, cleanupVars>>

Decode ==
    /\ Len(calls) < MaxCalls
    /\ HasName
    /\ calls' = Append(calls, Call("decode", CurrentName,
                                   EtlReplicationSlot_try_from(CurrentName)))
    /\ UNCHANGED <<input, cleanupVars>>

ApplyPrefix ==
    /\ calls = <<>>
    /\ input.kind = "pipeline"
    /\ LET arg == [pipeline_id |-> input.config.id,
                   slot_prefix |-> input.config.slot_prefix]
       IN calls' = <<Call("apply_prefix", arg,
                          apply_prefix(arg.pipeline_id, arg.slot_prefix))>>
    /\ UNCHANGED <<input, cleanupVars>>

TableSyncPrefix ==
    /\ calls = <<>>
    /\ input.kind = "pipeline"
    /\ LET arg == [pipeline_id |-> input.config.id,
                   slot_prefix |-> input.config.slot_prefix]
       IN calls' = <<Call("table_sync_prefix", arg,
                          table_sync_prefix(arg.pipeline_id, arg.slot_prefix))>>
    /\ UNCHANGED <<input, cleanupVars>>

Validate ==
    /\ calls = <<>>
    /\ input.kind = "pipeline"
    /\ calls' = <<Call("validate", input.config, validate(input.config))>>
    /\ UNCHANGED <<input, cleanupVars>>

Next ==
    \/ Encode
    \/ Decode
    \/ ApplyPrefix
    \/ TableSyncPrefix
    \/ Validate

Spec == Init /\ [][Next]_vars

(***************************************************************************)
(* The cleanup of a pipeline's slots, and the catalog it runs against.     *)
(***************************************************************************)
Range(s) == {s[i] : i \in 1..Len(s)}

\* Sequences over S of length at most n.
SeqUpTo(S, n) == UNION {[1..k -> S] : k \in 0..n}

\* The loop over table_ids giving up at the first name it cannot encode.
RECURSIVE TableSyncSlotNames_StopAtFailure(_, _, _)
TableSyncSlotNames_StopAtFailure(pipeline_id, table_ids, slot_prefix) ==
    IF table_ids = <<>> THEN <<>>
    ELSE LET slot_name == String_try_from(
                 for_table_sync_worker(pipeline_id, Head(table_ids), slot_prefix))
         IN IF slot_name.ok
            THEN <<slot_name.val>>
                   \o TableSyncSlotNames_StopAtFailure(pipeline_id, Tail(table_ids),
                                                       slot_prefix)
            ELSE <<>>

\* The table sync names of the cleanup's loop over table_ids: a name that
\* cannot be encoded is left out.
RECURSIVE TableSyncSlotNames(_, _, _)
TableSyncSlotNames(pipeline_id, table_ids, slot_prefix) ==
    IF table_ids = <<>> THEN <<>>
    ELSE LET slot_name == String_try_from(
                 for_table_sync_worker(pipeline_id, Head(table_ids), slot_prefix))
             rest == TableSyncSlotNames(pipeline_id, Tail(table_ids), slot_prefix)
         IN IF slot_name.ok THEN <<slot_name.val>> \o rest ELSE rest

\* The slot_names vector of the cleanup: the apply name, then the table sync
\* names, each only if it can be encoded.
CollectSlotNames(pipeline_id, table_ids, slot_prefix) ==
    LET apply_slot_name == String_try_from(for_apply_worker(pipeline_id, slot_prefix))
    IN (IF apply_slot_name.ok THEN <<apply_slot_name.val>> ELSE <<>>)
         \o TableSyncSlotNames(pipeline_id, table_ids, slot_prefix)

\* The statements the cleanup sends: the one batched drop, bound to slot_names.
Statements(slot_names) == <<[bind |-> slot_names]>>

\* The statement without its condition on the active flag.
SelectedRows_AnyActivity(rows, slot_names) ==
    {r \in rows : r.slot_name \in Range(slot_names)}

\* The statement dropping every name it is given, in the catalog or not.
SelectedRows_EveryName(rows, slot_names) ==
    {[slot_name |-> n, active |-> FALSE] : n \in Range(slot_names)}

\* The statement matching each name as a pattern: like $1 || '%'.
SelectedRows_NamePrefix(rows, slot_names) ==
    {r \in rows :
        /\ \E n \in Range(slot_names) :
              Len(n) <= Len(r.slot_name) /\ SubSeq(r.slot_name, 1, Len(n)) = n
        /\ r.active = FALSE}

\* The rows of the statement:
\*   from pg_replication_slots r where r.slot_name = any($1) and r.active = false
SelectedRows(rows, slot_names) ==
    {r \in rows : r.slot_name \in Range(slot_names) /\ r.active = FALSE}

\* pg_drop_replication_slot over the selected rows: a slot is removed if it
\* exists and is inactive; the database refuses any other drop with an error.
DropSlots(rows, selected) ==
    [catalog |-> rows \ {r \in selected : ~r.active},
     ok |-> \A r \in selected : r \in rows /\ ~r.active]

\* The pipelines whose slots are torn down: a short prefix, a prefix with
\* which only the one-digit table id still fits, a prefix with which no name
\* fits.
CleanupPrefixes == {<<"e", "t", "l">>, Rep("a", 48), Rep("a", 56)}

CleanupPipelineId == U64(1)

\* Another pipeline, whose names start with the names of the first.
OtherPipelineId == U64(11)

CleanupTableIds == {U32(7), U32(16)}

Targets ==
    [pipeline_id : {CleanupPipelineId},
     table_ids : SeqUpTo(CleanupTableIds, MaxTables),
     slot_prefix : CleanupPrefixes]

\* The slots consumers may hold under the target's prefix: the apply slots of
\* the two pipelines and the table sync slots of the first.
CatalogSlots ==
    {for_apply_worker(CleanupPipelineId, target.slot_prefix),
     for_apply_worker(OtherPipelineId, target.slot_prefix)}
    \cup {for_table_sync_worker(CleanupPipelineId, t, target.slot_prefix) :
            t \in CleanupTableIds}

\* The names a slot of the catalog can have: those of the two pipelines under
\* the target's prefix that fit the 63 bytes Postgres allows a name.
CatalogNames ==
    {FormatSlotName(slot) :
        slot \in {q \in CatalogSlots : ByteLen(FormatSlotName(q)) <= 63}}

NoInput == [kind |-> "none"]

InitCleanup ==
    /\ input = NoInput
    /\ calls = <<>>
    /\ target \in Targets
    /\ catalog = {}
    /\ inflight = <<>>
    /\ cleanup = NoCleanup
    /\ lastExec = NoExec

\* The catalog changed under the cleanup's feet.
Disturbed == IF lastExec.done THEN [lastExec EXCEPT !.undisturbed = FALSE] ELSE lastExec

\* A consumer creates a slot, holding it or not.
CreateSlot(slot_name, active) ==
    /\ \A r \in catalog : r.slot_name # slot_name
    /\ catalog' = catalog \cup {[slot_name |-> slot_name, active |-> active]}
    /\ lastExec' = Disturbed
    /\ UNCHANGED <<codecVars, target, inflight, cleanup>>

\* A consumer claims an inactive slot.
AcquireSlot(slot_name) ==
    /\ [slot_name |-> slot_name, active |-> FALSE] \in catalog
    /\ catalog' = (catalog \ {[slot_name |-> slot_name, active |-> FALSE]})
                    \cup {[slot_name |-> slot_name, active |-> TRUE]}
    /\ lastExec' = Disturbed
    /\ UNCHANGED <<codecVars, target, inflight, cleanup>>

\* A consumer releases the slot it holds.
ReleaseSlot(slot_name) ==
    /\ [slot_name |-> slot_name, active |-> TRUE] \in catalog
    /\ catalog' = (catalog \ {[slot_name |-> slot_name, active |-> TRUE]})
                    \cup {[slot_name |-> slot_name, active |-> FALSE]}
    /\ lastExec' = Disturbed
    /\ UNCHANGED <<codecVars, target, inflight, cleanup>>

\* delete_pipeline_replication_slots, up to its await: the names are
\* collected and the statement is sent.
delete_pipeline_replication_slots ==
    /\ cleanup.state # "awaiting"
    /\ LET slot_names == CollectSlotNames(target.pipeline_id, target.table_ids,
                                          target.slot_prefix)
           sent == Statements(slot_names)
       IN /\ inflight' = sent
          /\ cleanup' = [state |-> IF sent = <<>> THEN "returned" ELSE "awaiting",
                         slot_names |-> slot_names,
                         executed |-> 0,
                         ok |-> TRUE]
    /\ UNCHANGED <<codecVars, target, catalog, lastExec>>

\* The database executes the statement, and the cleanup returns its outcome.
ExecuteStatement ==
    /\ inflight # <<>>
    /\ LET statement == Head(inflight)
           selected == SelectedRows(catalog, statement.bind)
           outcome == DropSlots(catalog, selected)
       IN /\ catalog' = outcome.catalog
          /\ lastExec' = [done |-> TRUE,
                          bind |-> statement.bind,
                          selected |-> selected,
                          dropped |-> catalog \ outcome.catalog,
                          changed |-> outcome.catalog # catalog,
                          ok |-> outcome.ok,
                          sequel |-> lastExec.done /\ lastExec.undisturbed,
                          undisturbed |-> TRUE]
          /\ inflight' = Tail(inflight)
          /\ cleanup' = [cleanup EXCEPT
                             !.state = IF Tail(inflight) = <<>> THEN "returned"
                                       ELSE "awaiting",
                             !.executed = @ + 1,
                             !.ok = @ /\ outcome.ok]
    /\ UNCHANGED <<codecVars, target>>

NextCleanup ==
    \/ \E slot_name \in CatalogNames, active \in BOOLEAN : CreateSlot(slot_name, active)
    \/ \E slot_name \in CatalogNames : AcquireSlot(slot_name)
    \/ \E slot_name \in CatalogNames : ReleaseSlot(slot_name)
    \/ delete_pipeline_replication_slots
    \/ ExecuteStatement

SpecCleanup == InitCleanup /\ [][NextCleanup]_vars

(***************************************************************************)
(* Properties of the codec and of the configuration gate.                  *)
(***************************************************************************)
CallsOf(fn) == {i \in 1..Len(calls) : calls[i].fn = fn}

\* An encoding that succeeded, followed by the decoding of its name.
EncodeThenDecode ==
    {i \in 2..Len(calls) :
        /\ calls[i - 1].fn = "encode"
        /\ calls[i - 1].ret.ok
        /\ calls[i].fn = "decode"}

\* A decoding that succeeded, followed by the encoding of its identity.
DecodeThenEncode ==
    {i \in 2..Len(calls) :
        /\ calls[i - 1].fn = "decode"
        /\ calls[i - 1].ret.ok
        /\ calls[i].fn = "encode"}

\* The delimiter the encoder writes is the first one the decoder finds: the
\* prefix followed by "_" holds no "_apply_" and, for a table sync slot, no
\* "_table_sync_" (so the prefix neither contains a delimiter nor ends with
\* "_apply" or "_table_sync").
DelimiterFree(slot) ==
    /\ ~Contains(slot.prefix \o <<"_">>, ApplyPattern)
    /\ slot.variant = "TableSync"
         => ~Contains(slot.prefix \o <<"_">>, TableSyncPattern)

\* C1, as claimed: decoding the name of any slot identity whose encoding
\* succeeded returns exactly that identity, whatever its prefix.
C1_RoundTripAnyPrefix ==
    \A i \in EncodeThenDecode : calls[i].ret = Ok(calls[i - 1].arg)

\* C1, amended: decoding the name of a slot identity whose encoding succeeded
\* returns exactly that identity (variant, prefix, pipeline id, table id) if
\* the prefix is free of the codec's delimiters, and only then.
C1_RoundTripDelimiterFree ==
    \A i \in EncodeThenDecode :
        (calls[i].ret = Ok(calls[i - 1].arg)) <=> DelimiterFree(calls[i - 1].arg)

\* A table sync identity with the largest pipeline and table ids came back.
C1_Witness ==
    \E i \in EncodeThenDecode :
        /\ calls[i - 1].arg.variant = "TableSync"
        /\ calls[i - 1].arg.pipeline_id = U64_MAX
        /\ calls[i - 1].arg.table_id = U32_MAX
        /\ calls[i - 1].arg.prefix # <<>>
        /\ calls[i].ret = Ok(calls[i - 1].arg)

\* The name the claims spell out for a slot identity.
ClaimedName(slot) ==
    IF slot.variant = "Apply"
    THEN slot.prefix \o ApplyPattern \o FormatUnsigned(slot.pipeline_id)
    ELSE slot.prefix \o TableSyncPattern \o FormatUnsigned(slot.pipeline_id)
           \o <<"_">> \o FormatUnsigned(slot.table_id)

\* C2: encoding returns InvalidSlotNameLength, carrying the whole formatted
\* name, exactly when the formatted name is longer than 63 bytes, and
\* otherwise returns the formatted name itself.
C2_LengthGate ==
    \A i \in CallsOf("encode") :
        LET name == ClaimedName(calls[i].arg) IN
        calls[i].ret = IF ByteLen(name) > 63
                       THEN Err("InvalidSlotNameLength", name)
                       ELSE Ok(name)

\* A name of 64 bytes was refused, whole.
C2_Witness ==
    \E i \in CallsOf("encode") :
        /\ ByteLen(ClaimedName(calls[i].arg)) = 64
        /\ calls[i].ret = Err("InvalidSlotNameLength", ClaimedName(calls[i].arg))

\* C6, as claimed: each prefix helper returns its formatted string whenever
\* that is at most 63 bytes long and fails only when it is longer, so that
\* apply_prefix succeeds exactly when encoding the Apply identity does.
C6_PrefixHelpersBound ==
    /\ \A i \in CallsOf("apply_prefix") :
          LET p == calls[i].arg.slot_prefix \o ApplyPattern
                     \o FormatUnsigned(calls[i].arg.pipeline_id)
          IN /\ calls[i].ret = IF ByteLen(p) <= 63 THEN Ok(p)
                               ELSE Err("InvalidSlotNameLength", p)
             /\ calls[i].ret.ok =
                  String_try_from(for_apply_worker(calls[i].arg.pipeline_id,
                                                   calls[i].arg.slot_prefix)).ok
    /\ \A i \in CallsOf("table_sync_prefix") :
          LET p == calls[i].arg.slot_prefix \o TableSyncPattern
                     \o FormatUnsigned(calls[i].arg.pipeline_id) \o <<"_">>
          IN calls[i].ret = IF ByteLen(p) <= 63 THEN Ok(p)
                            ELSE Err("InvalidSlotNameLength", p)

\* The prefix is one PipelineConfig::validate lets through.
PrefixAccepted(slot_prefix) ==
    validate([id |-> U64(0), slot_prefix |-> slot_prefix,
              max_table_sync_workers |-> 1,
              table_error_retry_max_attempts |-> 1,
              tls |-> [acceptable |-> TRUE]]).ok

\* C7: with a prefix that the configuration gate accepts, encoding the
\* worker's slot identity succeeds, with a name of at most 63 bytes.
C7_ValidatedPrefixEncodes ==
    \A i \in CallsOf("encode") :
        PrefixAccepted(calls[i].arg.prefix)
            => /\ calls[i].ret.ok
               /\ ByteLen(calls[i].ret.val) <= 63

\* The longest name there is: 20 bytes of prefix, u64::MAX and u32::MAX.
C7_Witness ==
    \E i \in CallsOf("encode") :
        /\ PrefixAccepted(calls[i].arg.prefix)
        /\ ByteLen(calls[i].arg.prefix) = 20
        /\ calls[i].arg.variant = "TableSync"
        /\ calls[i].arg.pipeline_id = U64_MAX
        /\ calls[i].arg.table_id = U32_MAX
        /\ calls[i].ret.ok
        /\ ByteLen(calls[i].ret.val) = 63

\* s without its leading zeros.
RECURSIVE StripZeros(_)
StripZeros(s) ==
    IF s # <<>> /\ Head(s) = "0" THEN StripZeros(Tail(s)) ELSE s

\* a <= b for two numerals of the same length.
RECURSIVE NumeralLeq(_, _)
NumeralLeq(a, b) ==
    \/ a = <<>>
    \/ DigitValue(Head(a)) < DigitValue(Head(b))
    \/ Head(a) = Head(b) /\ NumeralLeq(Tail(a), Tail(b))

\* s is written as decimal digits and its value is at most that of max.
IsNumeralUpTo(s, max) ==
    /\ s # <<>>
    /\ \A k \in 1..Len(s) : IsDigit(s[k])
    /\ LET t == StripZeros(s) IN
       \/ Len(t) < Len(max)
       \/ Len(t) = Len(max) /\ NumeralLeq(t, max)

\* s is <prefix>_apply_<pipeline_id> with a non-empty prefix.
InApplyGrammar(s) ==
    \E k \in 1..(Len(s) - Len(ApplyPattern)) :
        /\ SubSeq(s, k + 1, k + Len(ApplyPattern)) = ApplyPattern
        /\ IsNumeralUpTo(SubSeq(s, k + Len(ApplyPattern) + 1, Len(s)), U64MaxNumeral)

\* s is <prefix>_table_sync_<pipeline_id>_<table_oid> with a non-empty prefix.
InTableSyncGrammar(s) ==
    \E k \in 1..(Len(s) - Len(TableSyncPattern)) :
        /\ SubSeq(s, k + 1, k + Len(TableSyncPattern)) = TableSyncPattern
        /\ \E u \in (k + Len(TableSyncPattern) + 1)..Len(s) :
              /\ s[u] = "_"
              /\ IsNumeralUpTo(SubSeq(s, k + Len(TableSyncPattern) + 1, u - 1),
                               U64MaxNumeral)
              /\ IsNumeralUpTo(SubSeq(s, u + 1, Len(s)), U32MaxNumeral)

\* C8, as claimed: decoding succeeds only on a string of one of the two
\* grammars (non-empty prefix, segments of decimal digits that fit their
\* width), and every other string fails with InvalidSlotName.
C8_DecodeOnlyGrammar ==
    \A i \in CallsOf("decode") :
        ~(InApplyGrammar(calls[i].arg) \/ InTableSyncGrammar(calls[i].arg))
            => calls[i].ret = Err("InvalidSlotName", calls[i].arg)

\* C9, as claimed: encoding the identity that decoding returned for a string
\* succeeds and returns that string.
C9_DecodeEncodeRoundTrip ==
    \A i \in DecodeThenEncode : calls[i].ret = Ok(calls[i - 1].arg)

\* C10: validate returns the error of the first failing check, in the order
\* TLS settings, max_table_sync_workers = 0, table_error_retry_max_attempts
\* = 0, slot_prefix empty, slot_prefix longer than 20 bytes, and Ok exactly
\* when no check fails.
C10_ValidateFirstFailure ==
    \A i \in CallsOf("validate") :
        LET config == calls[i].arg
            ret == calls[i].ret
            tlsFails == ~config.tls.acceptable
            workersFail == config.max_table_sync_workers = 0
            attemptsFail == config.table_error_retry_max_attempts = 0
            emptyFails == Len(config.slot_prefix) = 0
            longFails == ByteLen(config.slot_prefix) > 20
        IN
        /\ tlsFails => ret = TlsConfig_validate(config.tls)
        /\ ~tlsFails /\ workersFail
             => ret = [ok |-> FALSE, err |-> "MaxTableSyncWorkersZero"]
        /\ ~tlsFails /\ ~workersFail /\ attemptsFail
             => ret = [ok |-> FALSE, err |-> "TableErrorRetryMaxAttemptsZero"]
        /\ ~tlsFails /\ ~workersFail /\ ~attemptsFail /\ emptyFails
             => ret = [ok |-> FALSE, err |-> "SlotPrefixEmpty"]
        /\ ~tlsFails /\ ~workersFail /\ ~attemptsFail /\ ~emptyFails /\ longFails
             => ret = [ok |-> FALSE, err |-> "SlotPrefixTooLong", max_length |-> 20,
                       actual_length |-> ByteLen(config.slot_prefix)]
        /\ ret.ok <=> ~(tlsFails \/ workersFail \/ attemptsFail
                          \/ emptyFails \/ longFails)

\* A configuration failing three checks at once got the error of the first.
C10_Witness ==
    \E i \in CallsOf("validate") :
        /\ calls[i].arg.tls.acceptable
        /\ calls[i].arg.max_table_sync_workers = 0
        /\ calls[i].arg.table_error_retry_max_attempts = 0
        /\ ByteLen(calls[i].arg.slot_prefix) > 20
        /\ calls[i].ret = [ok |-> FALSE, err |-> "MaxTableSyncWorkersZero"]

C4_CleanupIdempotent ==
    lastExec.done /\ lastExec.sequel =>
        /\ lastExec.ok
        /\ ~lastExec.changed
        /\ lastExec.dropped = {}
        /\ cleanup.state = "returned" => cleanup.ok

\* The second of two cleanups has returned, the first having dropped every
\* slot it named.
C4_Witness ==
    /\ lastExec.done
    /\ lastExec.sequel
    /\ cleanup.state = "returned"
    /\ cleanup.ok
    /\ cleanup.slot_names # <<>>
    /\ \A r \in catalog : r.slot_name \notin Range(cleanup.slot_names)

\* The identities the cleanup is to remove: the apply slot of the pipeline
\* and the table sync slot of each of its tables.
TargetSlots ==
    {for_apply_worker(target.pipeline_id, target.slot_prefix)}
    \cup {for_table_sync_worker(target.pipeline_id, t, target.slot_prefix) :
            t \in Range(target.table_ids)}

\* The names among them that can be encoded.
EncodableNames ==
    {String_try_from(slot).val : slot \in {q \in TargetSlots : String_try_from(q).ok}}

\* C5: the names the cleanup binds to its statement are exactly the names of
\* the target's slots that can be encoded, the others being skipped; and the
\* cleanup has executed exactly one statement when it returns, even with no
\* name at all.
C5_BestEffortNames ==
    /\ cleanup.state # "none" => Range(cleanup.slot_names) = EncodableNames
    /\ cleanup.state = "awaiting" => inflight = <<[bind |-> cleanup.slot_names]>>
    /\ cleanup.state = "returned" =>
          /\ cleanup.executed = 1
          /\ lastExec.done
          /\ Range(lastExec.bind) = EncodableNames

\* The cleanup returned after one statement that held the apply name and the
\* name of one table, the name of another table having been skipped.
C5_Witness ==
    /\ cleanup.state = "returned"
    /\ cleanup.executed = 1
    /\ Cardinality(Range(lastExec.bind)) = 2
    /\ Cardinality(TargetSlots) = 3

\* The cleanup returned after one statement with no name in it.
C5_WitnessAllSkipped ==
    /\ cleanup.state = "returned"
    /\ cleanup.executed = 1
    /\ lastExec.bind = <<>>
    /\ target.table_ids # <<>>

(***************************************************************************)
(* The frame of the cleanup.                                               *)
(***************************************************************************)
\* Slot identities around the target: its prefix and that prefix extended by
\* an apply name, the two pipelines, and table ids whose digits run into
\* those of the pipeline ids (1 and 16, 11 and 6).
NeighbourSlots ==
    LET prefixes == {target.slot_prefix,
                     target.slot_prefix \o ApplyPattern \o <<"1">>}
        pipelines == {CleanupPipelineId, OtherPipelineId}
        tables == CleanupTableIds \cup {U32(6)}
    IN {for_apply_worker(p, x) : p \in pipelines, x \in prefixes}
       \cup {for_table_sync_worker(p, t, x) :
               p \in pipelines, t \in tables, x \in prefixes}

\* C11: distinct slot identities have distinct names (there are as many
\* names as identities), and a statement of the
\* cleanup for (pipeline_id, table_ids, slot_prefix) neither selects nor
\* removes the slot of any other identity (another pipeline under the same
\* prefix, a table outside table_ids): such a row stays as it was.
C11_CleanupFrame ==
    /\ Cardinality({FormatSlotName(q) : q \in NeighbourSlots})
          = Cardinality(NeighbourSlots)
    /\ CatalogSlots \cup TargetSlots \subseteq NeighbourSlots
    /\ lastExec.done =>
          \A q \in CatalogSlots \ TargetSlots :
              \A r \in lastExec.selected \cup lastExec.dropped :
                  r.slot_name # FormatSlotName(q)

\* The statement dropped a slot of the target while the inactive apply slot
\* of the other pipeline and the inactive slot of a table outside table_ids
\* were in the catalog, and both are still there.
C11_Witness ==
    /\ lastExec.done
    /\ lastExec.undisturbed
    /\ lastExec.dropped # {}
    /\ [slot_name |-> FormatSlotName(for_apply_worker(OtherPipelineId,
                                                      target.slot_prefix)),
        active |-> FALSE] \in catalog
    /\ \E t \in CleanupTableIds \ Range(target.table_ids) :
          [slot_name |-> FormatSlotName(for_table_sync_worker(
                             target.pipeline_id, t, target.slot_prefix)),
           active |-> FALSE] \in catalog

====
